---- MODULE Spec2Model ----
(***************************************************************************)
(* Binocular Viewer (src/script.js): the viewport positioning and          *)
(* input-fusion core, modelled as a state machine over AppState, the       *)
(* ViewportController cache, the animation-frame queue and the timers.     *)
(*                                                                         *)
(* Numbers.  JavaScript Numbers that hold fractions (normalized            *)
(* coordinates, the radius, keyboard deltas) are fixed-point integers in   *)
(* units of 1/Scale, rounded to nearest.  Pixel quantities read from the   *)
(* browser (innerWidth, clientX, ...) are plain integers.  The IEEE-754    *)
(* values +Infinity, -Infinity and NaN that a division by zero produces    *)
(* are the three sentinels PosInf, NegInf and NaN, and every arithmetic    *)
(* operator below treats them as JavaScript does.                          *)
(***************************************************************************)
EXTENDS Integers, FiniteSets, Sequences, TLC

\* ------------------------------------------------------------------------
\* Fixed-point Numbers with the IEEE special values
\* ------------------------------------------------------------------------
Scale == 10000
PosInf == 1000000000
NegInf == 0 - PosInf
NaN == 2000000000

IsNaN(a) == a = NaN
IsFinite(a) == a # NaN /\ a # PosInf /\ a # NegInf

\* round-to-nearest quotient a / b of integers, b > 0
RDiv(a, b) == (2 * a + b) \div (2 * b)

\* a + b
FAdd(a, b) ==
  IF IsNaN(a) \/ IsNaN(b) THEN NaN
  ELSE IF ~IsFinite(a) /\ ~IsFinite(b) THEN (IF a = b THEN a ELSE NaN)
  ELSE IF ~IsFinite(a) THEN a
  ELSE IF ~IsFinite(b) THEN b
  ELSE a + b

FNeg(a) == IF IsNaN(a) THEN NaN ELSE 0 - a

\* a - b
FSub(a, b) == FAdd(a, FNeg(b))

\* a * (n / d) for a positive constant n / d
FMulFrac(a, n, d) == IF IsFinite(a) THEN RDiv(a * n, d) ELSE a

\* p / q for a scaled or pixel numerator p and a pixel count q >= 0;
\* unit is the scale of the result relative to the numerator
FDiv(p, q, unit) ==
  IF q = 0 THEN (IF p = 0 THEN NaN ELSE IF p > 0 THEN PosInf ELSE NegInf)
  ELSE RDiv(p * unit, q)

\* Math.min / Math.max
FMin(a, b) == IF IsNaN(a) \/ IsNaN(b) THEN NaN ELSE IF a < b THEN a ELSE b
FMax(a, b) == IF IsNaN(a) \/ IsNaN(b) THEN NaN ELSE IF a > b THEN a ELSE b

\* a < b, a <= b (false when either side is NaN)
FLt(a, b) == ~IsNaN(a) /\ ~IsNaN(b) /\ a < b
FLe(a, b) == ~IsNaN(a) /\ ~IsNaN(b) /\ a <= b

Px(n) == n * Scale

\* ------------------------------------------------------------------------
\* ViewportController: constants and pure parts
\* ------------------------------------------------------------------------
smoothingFactor == 15       \* 0.15, in hundredths
touchSmoothingFactor == 40  \* 0.4, in hundredths
boundaryPadding == 200      \* 0.02
smallScreenPadding == 100   \* 0.01
Half == Scale \div 2        \* 0.5

\* bounds without the padding; C15 tells them from the bounds below
ComputeBoundsNoPadding(c, r) ==
  LET radiusX == FDiv(r, c.width, 1)
      radiusY == FDiv(r, c.height, 1)
  IN [minX |-> radiusX, maxX |-> FSub(Scale, radiusX),
      minY |-> radiusY, maxY |-> FSub(Scale, radiusY)]

\* lines 624-642: the bounds computed from first principles
ComputeBounds(c, r) ==
  LET radiusX == FDiv(r, c.width, 1)
      radiusY == FDiv(r, c.height, 1)
      dynamicPadding == IF c.width < 768 THEN smallScreenPadding ELSE boundaryPadding
  IN [minX |-> FAdd(radiusX, dynamicPadding),
      maxX |-> FSub(FSub(Scale, radiusX), dynamicPadding),
      minY |-> FAdd(radiusY, dynamicPadding),
      maxY |-> FSub(FSub(Scale, radiusY), dynamicPadding)]

\* lines 619-623: the cache is reused unless it is empty or the container
\* size differs from the size it was computed for
CacheStale(cb, lcs, c) ==
  cb = <<>> \/ lcs.width # c.width \/ lcs.height # c.height

\* the bounds applyBoundaryConstraints clamps with (and leaves in the cache)
BoundsUsed(cb, lcs, c, r) ==
  IF CacheStale(cb, lcs, c) THEN ComputeBounds(c, r) ELSE cb[1]

\* a clamp that forgets the upper bound; C13 tells it from the clamp below
ConstrainNoMax(b, px, py) ==
  [x |-> FMax(b.minX, px), y |-> FMax(b.minY, py)]

\* lines 651-654
Constrain(b, px, py) ==
  [x |-> FMax(b.minX, FMin(b.maxX, px)),
   y |-> FMax(b.minY, FMin(b.maxY, py))]

\* lines 607-612: normalize, then constrain
mouseToViewportPosition(b, c, clientX, clientY) ==
  Constrain(b, FDiv(clientX, c.width, Scale), FDiv(clientY, c.height, Scale))

\* an interpolation that starts from the target; C16 tells it from the
\* interpolation below
InterpolateFromTarget(cur, target, smoothing) ==
  FAdd(target, FMulFrac(FSub(cur, target), smoothing, 100))

\* lines 672-673: one interpolation step
Interpolate(cur, target, smoothing) ==
  FAdd(cur, FMulFrac(FSub(target, cur), smoothing, 100))

\* a controller that interpolates on every call, whatever the smooth flag;
\* C10 tells it from the controller below
updateViewportPositionAlwaysSmooth(b, vp, touchActive, targetX, targetY, smooth) ==
  LET constrainedTarget == Constrain(b, targetX, targetY)
      smoothing == IF touchActive THEN touchSmoothingFactor ELSE smoothingFactor
  IN [x |-> Interpolate(vp.x, constrainedTarget.x, smoothing),
      y |-> Interpolate(vp.y, constrainedTarget.y, smoothing)]

\* a controller that interpolates towards the raw target; C14 tells it from
\* the controller below
updateViewportPositionUnclamped(b, vp, touchActive, targetX, targetY, smooth) ==
  LET smoothing == IF touchActive THEN touchSmoothingFactor ELSE smoothingFactor
  IN IF smooth
     THEN [x |-> Interpolate(vp.x, targetX, smoothing),
           y |-> Interpolate(vp.y, targetY, smoothing)]
     ELSE [x |-> targetX, y |-> targetY]

\* lines 660-681: the new (x, y)
updateViewportPosition(b, vp, touchActive, targetX, targetY, smooth) ==
  LET constrainedTarget == Constrain(b, targetX, targetY)
      smoothing == IF touchActive THEN touchSmoothingFactor ELSE smoothingFactor
  IN IF smooth
     THEN [x |-> Interpolate(vp.x, constrainedTarget.x, smoothing),
           y |-> Interpolate(vp.y, constrainedTarget.y, smoothing)]
     ELSE constrainedTarget

\* a store that replaces the viewport object by a fresh one with the
\* default radius; C31 tells it from the store below
storePositionFreshViewport(vp, position) ==
  [x |-> position.x, y |-> position.y, radius |-> Px(150)]

\* lines 675-680 and 694-695: the controller stores the new position in
\* AppState.viewport, whose radius it leaves alone
storePosition(vp, position) == [vp EXCEPT !.x = position.x, !.y = position.y]

\* lines 689-696
moveViewportByDelta(b, vp, deltaX, deltaY) ==
  Constrain(b, FAdd(vp.x, deltaX), FAdd(vp.y, deltaY))

\* a speed that ignores the container width; C17 tells it from the speed
\* below
getKeyboardMoveSpeedSmallScreen(c) == 30

\* lines 704-713
getKeyboardMoveSpeed(c) ==
  IF c.width < 480 THEN 30 ELSE IF c.width < 768 THEN 25 ELSE 20

\* ------------------------------------------------------------------------
\* ResponsiveManager and the radius
\* ------------------------------------------------------------------------
MinOf(a, b) == IF a < b THEN a ELSE b
MaxOf(a, b) == IF a > b THEN a ELSE b

\* a classification by the width alone; C19 tells it from the
\* classification below
detectDeviceTypeByWidth(c) ==
  IF c.width < 480 THEN "mobile-small"
  ELSE IF c.width < 768 THEN "mobile-large"
  ELSE IF c.width < 1024 THEN "tablet"
  ELSE "desktop"

\* lines 729-743
detectDeviceType(c) ==
  LET minDimension == MinOf(c.width, c.height)
  IN IF minDimension < 480 THEN "mobile-small"
     ELSE IF minDimension < 768 THEN "mobile-large"
     ELSE IF minDimension < 1024 THEN "tablet"
     ELSE "desktop"

\* lines 777-793
getOptimalViewportRadius(dt, c) ==
  LET minDimension == MinOf(c.width, c.height)
  IN CASE dt = "mobile-small" -> MinOf(Px(80), RDiv(Px(minDimension) * 15, 100))
       [] dt = "mobile-large" -> MinOf(Px(100), RDiv(Px(minDimension) * 18, 100))
       [] dt = "tablet" -> MinOf(Px(140), RDiv(Px(minDimension) * 20, 100))
       [] dt = "desktop" -> MinOf(Px(180), RDiv(Px(minDimension) * 15, 100))
       [] OTHER -> MinOf(Px(150), RDiv(Px(minDimension) * 18, 100))

\* lines 1336-1345: aspectRatio > 2.5, aspectRatio > 2 (x / 0 is Infinity,
\* 0 / 0 is NaN and compares false)
AspectOver(c, num, den) ==
  LET maxDimension == MaxOf(c.width, c.height)
      minDimension == MinOf(c.width, c.height)
  IN IF minDimension = 0 THEN maxDimension > 0
     ELSE den * maxDimension > num * minDimension

\* a radius without the final clamp; C18 tells it from the radius below
calculateViewportRadiusUnclamped(dt, c) ==
  LET baseRadius == getOptimalViewportRadius(dt, c)
  IN IF AspectOver(c, 5, 2) THEN RDiv(baseRadius * 75, 100)
     ELSE IF AspectOver(c, 2, 1) THEN RDiv(baseRadius * 85, 100)
     ELSE baseRadius

\* lines 1332-1348
calculateViewportRadius(dt, c) ==
  LET baseRadius == getOptimalViewportRadius(dt, c)
      adjusted == IF AspectOver(c, 5, 2) THEN RDiv(baseRadius * 75, 100)
                  ELSE IF AspectOver(c, 2, 1) THEN RDiv(baseRadius * 85, 100)
                  ELSE baseRadius
  IN MaxOf(Px(60), MinOf(Px(200), adjusted))

\* ------------------------------------------------------------------------
\* Inputs of the environment
\* ------------------------------------------------------------------------
\* window.innerWidth x window.innerHeight values the browser may report
Sizes == {[width |-> 1000, height |-> 800],
          [width |-> 100, height |-> 600],
          [width |-> 0, height |-> 600]}

\* clientX, clientY of pointer and touch samples
Points == {[x |-> 50, y |-> 50], [x |-> 800, y |-> 700]}

\* event.key values
Keys == {"ArrowLeft", "ArrowUp", "x"}

\* time between two animation frames, in hundredths of a millisecond
FrameTimes == {1667, 3334}

\* String.prototype.toLowerCase on the keys above
toLowerCase(k) ==
  CASE k = "ArrowLeft" -> "arrowleft"
    [] k = "ArrowUp" -> "arrowup"
    [] OTHER -> k

\* line 835
navigationKeys == {"arrowup", "arrowdown", "arrowleft", "arrowright", "w", "a", "s", "d"}

\* bounds of the exploration
MaxUpdates == 4
MaxOrientTimers == 1
MaxTouchEndTimers == 1

\* ------------------------------------------------------------------------
\* State
\* ------------------------------------------------------------------------
VARIABLES
  container,         \* AppState.container
  deviceType,        \* responsiveManager.deviceType
  viewport,          \* AppState.viewport
  input,             \* AppState.input
  keyboard,          \* AppState.keyboard (animationId 0 is null)
  rafPending,        \* handles of the moveLoop callbacks waiting for a frame
  cachedBounds,      \* viewportController.cachedBounds, <<>> is null
  lastContainerSize, \* viewportController.lastContainerSize
  isLoaded,          \* AppState.isLoaded
  imageState,        \* AppState.imageState
  initTimer,         \* the 500 ms timeout of handleImageSuccess is pending
  restoreTimer,      \* the 100 ms timeout of testViewportMask, with its captured position
  resizeTimer,       \* the debounce timeout of handleResize: pending, milliseconds left, clock
  orientTimers,      \* pending 100 ms timeouts of handleOrientationChange
  touchEndTimers,    \* pending 100 ms timeouts of handleTouchEnd whose event had no touches left
  mouseInThrottle,   \* inThrottle of the throttled handleMouseMove
  touchInThrottle,   \* inThrottle of the throttled handleTouchMove
  lastExecTime,      \* now - lastExecTime of both throttles in ms, up to the limit; clock
  updateCount,       \* AppState.performance.updateCount
  sink,              \* the viewport mask's style: mode, pending render callbacks, published values
  activeTouches,     \* touches on the screen whose touchstart was processed: count, tracked
  imageLoads         \* the load attempts in flight, each by the position of its URL: urls, tracked

vars == <<container, deviceType, viewport, input, keyboard, rafPending, cachedBounds,
          lastContainerSize, isLoaded, imageState, initTimer, restoreTimer, resizeTimer,
          orientTimers, touchEndTimers, mouseInThrottle, touchInThrottle, lastExecTime,
          updateCount, sink, activeTouches, imageLoads>>

controllerVars == <<cachedBounds, lastContainerSize>>
timerVars == <<initTimer, restoreTimer, resizeTimer, orientTimers, touchEndTimers>>
throttleVars == <<mouseInThrottle, touchInThrottle, lastExecTime>>
loopVars == <<keyboard, rafPending>>

\* v * n for a coordinate v and a pixel count n >= 0
FMulPx(v, n) ==
  IF IsNaN(v) THEN NaN
  ELSE IF ~IsFinite(v) THEN (IF n = 0 THEN NaN ELSE v)
  ELSE v * n

\* lines 1370-1372: the pixel position of the state vp in the container c
PixelPosition(vp, c) == [pixelX |-> FMulPx(vp.x, c.width), pixelY |-> FMulPx(vp.y, c.height)]

\* a render that drops its callback when one is already pending; C20 tells
\* it from the render below
PublishCoalesced(sk, vp, c) ==
  IF sk.mode = "frame" /\ sk.queue = <<>>
  THEN [sk EXCEPT !.queue = Append(@, PixelPosition(vp, c))]
  ELSE sk

\* lines 1370-1394: what a call of the render function updateViewportPosition
\* with the state vp leaves in the sink.  With custom properties and
\* requestAnimationFrame (mode "frame") it queues a callback that holds
\* the pixel position; in the fallback (mode "direct") it writes the style
\* at once.  The style is read back only for logging (lines 1471-1473), so
\* mode "off" leaves it unobserved without changing any handler.
Publish(sk, vp, c) ==
  IF sk.mode = "frame" THEN [sk EXCEPT !.queue = Append(@, PixelPosition(vp, c))]
  ELSE IF sk.mode = "direct"
       THEN [sk EXCEPT !.published =
               <<[pixelX |-> PixelPosition(vp, c).pixelX,
                  pixelY |-> PixelPosition(vp, c).pixelY, radiusPx |-> vp.radius]>>]
  ELSE sk

\* lines 1362-1415: the render function, called with the new state in the
\* container c
renderViewportPosition(c) ==
  /\ updateCount' = updateCount + 1
  /\ sink' = Publish(sink, viewport', c)

\* lines 1377-1389: the oldest pending render callback runs; it writes the
\* pixel position it holds and the radius of the moment
renderFrame ==
  /\ sink.queue # <<>>
  /\ sink' = [sink EXCEPT !.queue = Tail(@),
                          !.published = <<[pixelX |-> Head(sink.queue).pixelX,
                                           pixelY |-> Head(sink.queue).pixelY,
                                           radiusPx |-> viewport.radius]>>]
  /\ UNCHANGED <<container, deviceType, viewport, input, keyboard, rafPending, cachedBounds,
                 lastContainerSize, isLoaded, imageState, imageLoads, activeTouches, initTimer, restoreTimer, resizeTimer,
                 orientTimers, touchEndTimers, mouseInThrottle, touchInThrottle, lastExecTime,
                 updateCount>>

\* the state after the script has been evaluated and init() has run in a
\* window of size s: lines 7-54, 589-602, 720-724, 503-539
InitTimed(s, mode, clock) ==
  /\ container = s
  /\ deviceType = detectDeviceType([width |-> 0, height |-> 0])
  /\ viewport = [x |-> Half, y |-> Half, radius |-> Px(150)]
  /\ input = [mouseX |-> 0, mouseY |-> 0, keysPressed |-> {},
              isMouseActive |-> FALSE, touchActive |-> FALSE, keyboardActive |-> FALSE]
  /\ keyboard = [animationId |-> 0, isMoving |-> FALSE]
  /\ rafPending = {}
  /\ cachedBounds = <<>>
  /\ lastContainerSize = [width |-> 0, height |-> 0]
  /\ isLoaded = FALSE
  /\ imageState = [isLoading |-> TRUE, isLoaded |-> FALSE, hasError |-> FALSE, retryCount |-> 0]
  /\ initTimer = FALSE
  /\ restoreTimer = <<>>
  /\ resizeTimer = [pending |-> FALSE, left |-> 0, clock |-> clock = "debounce"]
  /\ orientTimers = 0
  /\ touchEndTimers = 0
  /\ mouseInThrottle = FALSE
  /\ touchInThrottle = FALSE
  /\ lastExecTime = [mouse |-> 0, touch |-> 0, clock |-> clock = "throttle"]
  /\ updateCount = 0
  /\ sink = [mode |-> mode, queue |-> <<>>, published |-> <<>>]
  /\ activeTouches = [count |-> 0, tracked |-> clock = "touch"]
  /\ imageLoads = [urls |-> IF clock = "image" THEN <<0>> ELSE <<>>, tracked |-> clock = "image"]

\* the same without a clock: a timeout fires at any moment after it was set
InitState(s, mode) == InitTimed(s, mode, "none")

\* the same with the sink left unobserved
InitFor(s) == InitState(s, "off")

Init == \E s \in Sizes : InitFor(s)

\* ------------------------------------------------------------------------
\* Image loading and initialization
\* ------------------------------------------------------------------------
\* line 24
maxRetries == 3

\* line 267: the number of fallback URLs
fallbackUrlCount == 3

\* lines 345-348: AppState.imageState after handleImageSuccess
imageSuccessState(st) ==
  [st EXCEPT !.isLoading = FALSE, !.isLoaded = TRUE, !.hasError = FALSE, !.retryCount = 0]

\* lines 408-410: AppState.imageState after handleImageError
imageErrorState(st) ==
  [st EXCEPT !.isLoading = FALSE, !.isLoaded = FALSE, !.hasError = TRUE]

\* a retry without the test against maxRetries; C37 tells it from the retry
\* below
retryStateUnbounded(st) ==
  [st EXCEPT !.retryCount = @ + 1, !.isLoading = TRUE, !.hasError = FALSE]

\* lines 472-485 with 279-280: AppState.imageState after retry(), which
\* returns at once when the retries are used up and otherwise counts the
\* retry and calls loadImage
retryState(st) ==
  IF st.retryCount >= maxRetries THEN st
  ELSE [st EXCEPT !.retryCount = @ + 1, !.isLoading = TRUE, !.hasError = FALSE]

\* lines 344-365
handleImageSuccess ==
  /\ imageState.isLoading
  /\ imageState' = imageSuccessState(imageState)
  /\ initTimer' = TRUE
  /\ UNCHANGED <<container, deviceType, viewport, input, loopVars, controllerVars, isLoaded,
                 restoreTimer, resizeTimer, orientTimers, touchEndTimers, throttleVars,
                 updateCount, sink, activeTouches, imageLoads>>

\* the sequence seq without its i-th element
RemoveAt(seq, i) == SubSeq(seq, 1, i - 1) \o SubSeq(seq, i + 1, Len(seq))

\* lines 294-299, 284 and 326-330: the image of the i-th load attempt in
\* flight arrives; the attempt ends with handleImageSuccess
imageLoad(i) ==
  /\ i \in 1..Len(imageLoads.urls)
  /\ imageLoads' = [imageLoads EXCEPT !.urls = RemoveAt(@, i)]
  /\ imageState' = imageSuccessState(imageState)
  /\ initTimer' = TRUE
  /\ UNCHANGED <<container, deviceType, viewport, input, loopVars, controllerVars, isLoaded,
                 restoreTimer, resizeTimer, orientTimers, touchEndTimers, throttleVars,
                 updateCount, sink, activeTouches>>

\* lines 290-304, 285-288 and 324-338: the URL of the i-th load attempt in
\* flight fails or times out; the attempt goes on with the next fallback
\* URL, or ends with handleImageError when none is left
imageFailure(i) ==
  /\ i \in 1..Len(imageLoads.urls)
  /\ IF imageLoads.urls[i] < fallbackUrlCount
     THEN /\ imageLoads' = [imageLoads EXCEPT !.urls[i] = @ + 1]
          /\ UNCHANGED imageState
     ELSE /\ imageLoads' = [imageLoads EXCEPT !.urls = RemoveAt(@, i)]
          /\ imageState' = imageErrorState(imageState)
  /\ UNCHANGED <<container, deviceType, viewport, input, loopVars, controllerVars, isLoaded,
                 timerVars, throttleVars, updateCount, sink, activeTouches>>

\* lines 472-492: retryImageLoad(); a retry that goes through starts a load
\* attempt with the first URL
retry ==
  /\ imageState' = retryState(imageState)
  /\ imageLoads' = IF imageState'.retryCount # imageState.retryCount
                   THEN [imageLoads EXCEPT !.urls = Append(@, 0)]
                   ELSE imageLoads
  /\ UNCHANGED <<container, deviceType, viewport, input, loopVars, controllerVars, isLoaded,
                 timerVars, throttleVars, updateCount, sink, activeTouches>>

\* lines 1288-1307 with testViewportMask, lines 1500-1514: the viewport is
\* centred, the radius computed, isLoaded set, and the self-test moves the
\* viewport to (0.51, 0.51) and schedules the restore of the position it saw
initializeViewport ==
  /\ initTimer
  /\ initTimer' = FALSE
  /\ viewport' = [x |-> RDiv(Scale * 51, 100), y |-> RDiv(Scale * 51, 100),
                  radius |-> calculateViewportRadius(deviceType, container)]
  /\ isLoaded' = TRUE
  /\ restoreTimer' = <<[x |-> Half, y |-> Half]>>
  /\ updateCount' = updateCount + 2
  /\ sink' = Publish(Publish(sink, [viewport' EXCEPT !.x = Half, !.y = Half], container),
                     viewport', container)
  /\ UNCHANGED <<container, deviceType, input, loopVars, controllerVars, imageState, imageLoads, activeTouches,
                 resizeTimer, orientTimers, touchEndTimers, throttleVars>>

\* lines 1509-1514: the timeout of testViewportMask
testViewportMaskRestore ==
  /\ restoreTimer # <<>>
  /\ viewport' = [viewport EXCEPT !.x = restoreTimer[1].x, !.y = restoreTimer[1].y]
  /\ restoreTimer' = <<>>
  /\ renderViewportPosition(container)
  /\ UNCHANGED <<container, deviceType, input, loopVars, controllerVars, isLoaded, imageState, imageLoads, activeTouches,
                 initTimer, resizeTimer, orientTimers, touchEndTimers, throttleVars>>

\* ------------------------------------------------------------------------
\* The boundary cache as the handlers use it
\* ------------------------------------------------------------------------
\* lines 617-648: the bounds a call of applyBoundaryConstraints in the
\* current state clamps with
CurrentBounds == BoundsUsed(cachedBounds, lastContainerSize, container, viewport.radius)

\* lines 637-647: what the call leaves in the cache
CacheFilled ==
  /\ cachedBounds' = <<CurrentBounds>>
  /\ lastContainerSize' = [width |-> container.width, height |-> container.height]

\* ------------------------------------------------------------------------
\* Pointer
\* ------------------------------------------------------------------------
\* lines 824 and 1217: the limits of the two throttles, in milliseconds
MouseLimit == 8
TouchLimit == 6

\* a throttle that tests inThrottle alone; C24 tells it from the throttle
\* below
throttleNoLimit(inThrottle, t, since, limit, elapsed) == ~inThrottle

\* line 1260: the call goes through.  since is now - lastExecTime where the
\* clock t runs; without a clock, elapsed says whether
\* now - lastExecTime >= limit
throttle(inThrottle, t, since, limit, elapsed) ==
  ~inThrottle /\ (IF t.clock THEN since >= limit ELSE elapsed)

\* lines 810-824 inside throttle, lines 1252-1271
handleMouseMove(p, elapsed) ==
  IF throttle(mouseInThrottle, lastExecTime, lastExecTime.mouse, MouseLimit, elapsed)
  THEN /\ mouseInThrottle' = TRUE
       /\ lastExecTime' = [lastExecTime EXCEPT !.mouse = 0]
       /\ IF isLoaded
          THEN LET position == mouseToViewportPosition(CurrentBounds, container, p.x, p.y)
                   moved == updateViewportPosition(CurrentBounds, viewport, input.touchActive,
                                                   position.x, position.y, TRUE)
               IN /\ input' = [input EXCEPT !.mouseX = p.x, !.mouseY = p.y,
                                            !.isMouseActive = TRUE, !.keyboardActive = FALSE]
                  /\ viewport' = storePosition(viewport, moved)
                  /\ CacheFilled
                  /\ renderViewportPosition(container)
          ELSE UNCHANGED <<input, viewport, controllerVars, updateCount, sink>>
       /\ UNCHANGED <<container, deviceType, loopVars, isLoaded, imageState, imageLoads, activeTouches, timerVars,
                      touchInThrottle>>
  ELSE UNCHANGED <<container, deviceType, viewport, input, loopVars, controllerVars, isLoaded,
                      imageState, imageLoads, activeTouches, timerVars, throttleVars, updateCount, sink>>

\* lines 1266-1268: the animation frame that reopens the mouse throttle
mouseThrottleFrame ==
  /\ mouseInThrottle
  /\ mouseInThrottle' = FALSE
  /\ UNCHANGED <<container, deviceType, viewport, input, loopVars, controllerVars, isLoaded,
                 imageState, imageLoads, activeTouches, timerVars, touchInThrottle, lastExecTime, updateCount, sink>>

\* lines 961-966
handleMouseEnter ==
  /\ input' = [input EXCEPT !.isMouseActive = TRUE]
  /\ UNCHANGED <<container, deviceType, viewport, loopVars, controllerVars, isLoaded,
                 imageState, imageLoads, activeTouches, timerVars, throttleVars, updateCount, sink>>

\* lines 968-973
handleMouseLeave ==
  /\ input' = [input EXCEPT !.isMouseActive = FALSE]
  /\ UNCHANGED <<container, deviceType, viewport, loopVars, controllerVars, isLoaded,
                 imageState, imageLoads, activeTouches, timerVars, throttleVars, updateCount, sink>>

\* ------------------------------------------------------------------------
\* Keyboard
\* ------------------------------------------------------------------------
\* requestAnimationFrame returns a handle no pending or held callback has
NewHandle(used) ==
  CHOOSE h \in 1..(Cardinality(used) + 1) :
    h \notin used /\ \A g \in 1..(h - 1) : g \in used

\* a start that marks the loop as moving without requesting a frame; C6
\* tells it from the start below
startKeyboardMovementNoFrame(kb, pending) ==
  IF kb.isMoving THEN [keyboard |-> kb, rafPending |-> pending]
  ELSE [keyboard |-> [kb EXCEPT !.isMoving = TRUE], rafPending |-> pending]

\* lines 872-876, 927: the loop state and the frame queue after the call
startKeyboardMovement(kb, pending) ==
  IF kb.isMoving THEN [keyboard |-> kb, rafPending |-> pending]
  ELSE LET h == NewHandle(pending \cup {kb.animationId})
       IN [keyboard |-> [animationId |-> h, isMoving |-> TRUE],
           rafPending |-> pending \cup {h}]

\* a stop that forgets the handle without cancelling the frame; C5 tells it
\* from the stop below
stopKeyboardMovementNoCancel(kb, pending) ==
  [keyboard |-> [animationId |-> 0, isMoving |-> FALSE], rafPending |-> pending]

\* lines 933-940
stopKeyboardMovement(kb, pending) ==
  IF kb.animationId # 0
  THEN [keyboard |-> [animationId |-> 0, isMoving |-> FALSE],
        rafPending |-> pending \ {kb.animationId}]
  ELSE [keyboard |-> [kb EXCEPT !.isMoving = FALSE], rafPending |-> pending]

\* a keydown that leaves the mouse marked active; C25 tells it from the
\* keydown below
pressNavigationKeyKeepsMouse(inp, key) ==
  [inp EXCEPT !.keysPressed = @ \cup {key}, !.keyboardActive = TRUE]

\* lines 840-843: the input state after the keydown of a navigation key
pressNavigationKey(inp, key) ==
  [inp EXCEPT !.keysPressed = @ \cup {key},
              !.keyboardActive = TRUE, !.isMouseActive = FALSE]

\* a keydown handler without the test of isLoaded; C36 tells it from the
\* handler below
handleKeyDownUnguarded(k) ==
  LET key == toLowerCase(k)
      started == startKeyboardMovement(keyboard, rafPending)
  IN /\ IF key \in navigationKeys
        THEN /\ input' = pressNavigationKey(input, key)
             /\ keyboard' = started.keyboard
             /\ rafPending' = started.rafPending
        ELSE UNCHANGED <<input, keyboard, rafPending>>
     /\ UNCHANGED <<container, deviceType, viewport, controllerVars, isLoaded, imageState, imageLoads,
                    activeTouches, timerVars, throttleVars, updateCount, sink>>

\* lines 829-850
handleKeyDown(k) ==
  LET key == toLowerCase(k)
      started == startKeyboardMovement(keyboard, rafPending)
  IN /\ IF isLoaded /\ key \in navigationKeys
        THEN /\ input' = pressNavigationKey(input, key)
             /\ keyboard' = started.keyboard
             /\ rafPending' = started.rafPending
        ELSE UNCHANGED <<input, keyboard, rafPending>>
     /\ UNCHANGED <<container, deviceType, viewport, controllerVars, isLoaded, imageState, imageLoads, activeTouches,
                    timerVars, throttleVars, updateCount, sink>>

\* lines 855-867
handleKeyUp(k) ==
  LET key == toLowerCase(k)
      remaining == input.keysPressed \ {key}
      stopped == stopKeyboardMovement(keyboard, rafPending)
  IN /\ IF isLoaded
        THEN /\ input' = [input EXCEPT !.keysPressed = remaining]
             /\ IF remaining = {}
                THEN keyboard' = stopped.keyboard /\ rafPending' = stopped.rafPending
                ELSE UNCHANGED <<keyboard, rafPending>>
        ELSE UNCHANGED <<input, keyboard, rafPending>>
     /\ UNCHANGED <<container, deviceType, viewport, controllerVars, isLoaded, imageState, imageLoads, activeTouches,
                    timerVars, throttleVars, updateCount, sink>>

\* the deltas without the diagonal normalization; C12 tells them from the
\* deltas below
FrameDeltaNoDiagonal(keys, c, deltaTime) ==
  LET moveSpeed == RDiv(getKeyboardMoveSpeed(c) * deltaTime, 1667)
      leftPressed == "arrowleft" \in keys \/ "a" \in keys
      rightPressed == "arrowright" \in keys \/ "d" \in keys
      upPressed == "arrowup" \in keys \/ "w" \in keys
      downPressed == "arrowdown" \in keys \/ "s" \in keys
  IN [x |-> (IF rightPressed THEN moveSpeed ELSE 0) - (IF leftPressed THEN moveSpeed ELSE 0),
      y |-> (IF downPressed THEN moveSpeed ELSE 0) - (IF upPressed THEN moveSpeed ELSE 0)]

\* the deltas of a loop that moves by the base speed in every frame,
\* whatever time has passed; C28 tells them from the deltas below
FrameDeltaPerFrame(keys, c, deltaTime) ==
  LET moveSpeed == getKeyboardMoveSpeed(c)
      leftPressed == "arrowleft" \in keys \/ "a" \in keys
      rightPressed == "arrowright" \in keys \/ "d" \in keys
      upPressed == "arrowup" \in keys \/ "w" \in keys
      downPressed == "arrowdown" \in keys \/ "s" \in keys
      deltaX == (IF rightPressed THEN moveSpeed ELSE 0) - (IF leftPressed THEN moveSpeed ELSE 0)
      deltaY == (IF downPressed THEN moveSpeed ELSE 0) - (IF upPressed THEN moveSpeed ELSE 0)
      diagonal == (leftPressed \/ rightPressed) /\ (upPressed \/ downPressed)
  IN IF diagonal
     THEN [x |-> RDiv(deltaX * 7071, 10000), y |-> RDiv(deltaY * 7071, 10000)]
     ELSE [x |-> deltaX, y |-> deltaY]

\* lines 889-915: the (deltaX, deltaY) of one frame for the held keys,
\* deltaTime in hundredths of a millisecond
FrameDelta(keys, c, deltaTime) ==
  LET moveSpeed == RDiv(getKeyboardMoveSpeed(c) * deltaTime, 1667)
      leftPressed == "arrowleft" \in keys \/ "a" \in keys
      rightPressed == "arrowright" \in keys \/ "d" \in keys
      upPressed == "arrowup" \in keys \/ "w" \in keys
      downPressed == "arrowdown" \in keys \/ "s" \in keys
      deltaX == (IF rightPressed THEN moveSpeed ELSE 0) - (IF leftPressed THEN moveSpeed ELSE 0)
      deltaY == (IF downPressed THEN moveSpeed ELSE 0) - (IF upPressed THEN moveSpeed ELSE 0)
      diagonal == (leftPressed \/ rightPressed) /\ (upPressed \/ downPressed)
  IN IF diagonal
     THEN [x |-> RDiv(deltaX * 7071, 10000), y |-> RDiv(deltaY * 7071, 10000)]
     ELSE [x |-> deltaX, y |-> deltaY]

\* lines 878-924: the animation frame of the keyboard loop, for the pending
\* callback h and the time deltaTime since the previous frame
moveLoop(h, deltaTime) ==
  LET waiting == rafPending \ {h}
      stopped == stopKeyboardMovement(keyboard, waiting)
      delta == FrameDelta(input.keysPressed, container, deltaTime)
      moved == moveViewportByDelta(CurrentBounds, viewport, delta.x, delta.y)
      next == NewHandle(waiting \cup {keyboard.animationId})
  IN /\ h \in rafPending
     /\ IF ~keyboard.isMoving \/ input.keysPressed = {}
        THEN /\ keyboard' = stopped.keyboard
             /\ rafPending' = stopped.rafPending
             /\ UNCHANGED <<viewport, controllerVars, updateCount, sink>>
        ELSE /\ IF delta.x # 0 \/ delta.y # 0
                THEN /\ viewport' = storePosition(viewport, moved)
                     /\ CacheFilled
                     /\ renderViewportPosition(container)
                ELSE UNCHANGED <<viewport, controllerVars, updateCount, sink>>
             /\ keyboard' = [keyboard EXCEPT !.animationId = next]
             /\ rafPending' = waiting \cup {next}
     /\ UNCHANGED <<container, deviceType, input, isLoaded, imageState, imageLoads, activeTouches, timerVars, throttleVars>>

\* lines 1012-1020
handleBlur ==
  LET stopped == stopKeyboardMovement(keyboard, rafPending)
  IN /\ input' = [input EXCEPT !.keysPressed = {}, !.touchActive = FALSE]
     /\ keyboard' = stopped.keyboard
     /\ rafPending' = stopped.rafPending
     /\ UNCHANGED <<container, deviceType, viewport, controllerVars, isLoaded, imageState, imageLoads, activeTouches,
                    timerVars, throttleVars, updateCount, sink>>

\* lines 1023-1032
handleVisibilityChange(hidden) ==
  LET stopped == stopKeyboardMovement(keyboard, rafPending)
  IN /\ IF hidden
        THEN /\ input' = [input EXCEPT !.keysPressed = {}]
             /\ keyboard' = stopped.keyboard
             /\ rafPending' = stopped.rafPending
        ELSE UNCHANGED <<input, keyboard, rafPending>>
     /\ UNCHANGED <<container, deviceType, viewport, controllerVars, isLoaded, imageState, imageLoads, activeTouches,
                    timerVars, throttleVars, updateCount, sink>>

\* ------------------------------------------------------------------------
\* Resize and orientation change
\* ------------------------------------------------------------------------
\* lines 1121-1135 and 1146-1159: the body both timeouts run, in a window
\* that now has size s
ResizeBody(s) ==
  /\ container' = s
  /\ deviceType' = detectDeviceType(s)
  /\ IF isLoaded
     THEN /\ viewport' = [viewport EXCEPT !.radius = calculateViewportRadius(detectDeviceType(s), s)]
          /\ renderViewportPosition(s)
     ELSE UNCHANGED <<viewport, updateCount, sink>>

\* line 1138: the delay of the debounced handleResize, in milliseconds
ResizeDelay == 100

\* a debounce whose timeout is due at once, so that every event of a burst
\* is followed by a run; C23 tells it from the debounce below
debounceNoDelay(timer, delay) ==
  [timer EXCEPT !.pending = TRUE, !.left = 0]

\* lines 1276-1283: the timeout after a call of the debounced function:
\* clearTimeout drops the pending one, setTimeout starts the delay anew
debounce(timer, delay) ==
  [timer EXCEPT !.pending = TRUE, !.left = IF timer.clock THEN delay ELSE 0]

\* lines 952, 1120, 1276-1283: a resize event
handleResize ==
  /\ resizeTimer' = debounce(resizeTimer, ResizeDelay)
  /\ UNCHANGED <<container, deviceType, viewport, input, loopVars, controllerVars, isLoaded,
                 imageState, imageLoads, activeTouches, initTimer, restoreTimer, orientTimers, touchEndTimers,
                 throttleVars, updateCount, sink>>

\* lines 1120-1138: the debounce timeout fires, once its delay has passed
handleResizeTimeout(s) ==
  /\ resizeTimer.pending
  /\ resizeTimer.left = 0
  /\ resizeTimer' = [resizeTimer EXCEPT !.pending = FALSE]
  /\ ResizeBody(s)
  /\ UNCHANGED <<input, loopVars, controllerVars, isLoaded, imageState, imageLoads, activeTouches, initTimer,
                 restoreTimer, orientTimers, touchEndTimers, throttleVars>>

\* d milliseconds pass while the debounce timeout is pending; a due timeout
\* runs before more time passes
timePasses(d) ==
  /\ resizeTimer.clock /\ resizeTimer.pending
  /\ d <= resizeTimer.left
  /\ resizeTimer' = [resizeTimer EXCEPT !.left = @ - d]
  /\ UNCHANGED <<container, deviceType, viewport, input, loopVars, controllerVars, isLoaded,
                 imageState, imageLoads, activeTouches, initTimer, restoreTimer, orientTimers, touchEndTimers,
                 throttleVars, updateCount, sink>>

\* lines 1143-1145, 1168: an orientationchange event starts one more timeout
handleOrientationChange ==
  /\ orientTimers < MaxOrientTimers
  /\ orientTimers' = orientTimers + 1
  /\ UNCHANGED <<container, deviceType, viewport, input, loopVars, controllerVars, isLoaded,
                 imageState, imageLoads, activeTouches, initTimer, restoreTimer, resizeTimer, touchEndTimers,
                 throttleVars, updateCount, sink>>

\* lines 1145-1168: one of the timeouts fires
handleOrientationTimeout(s) ==
  /\ orientTimers > 0
  /\ orientTimers' = orientTimers - 1
  /\ ResizeBody(s)
  /\ UNCHANGED <<input, loopVars, controllerVars, isLoaded, imageState, imageLoads, activeTouches, initTimer,
                 restoreTimer, resizeTimer, touchEndTimers, throttleVars>>

\* ------------------------------------------------------------------------
\* Touch
\* ------------------------------------------------------------------------
\* a lookup that takes an event without touch points for a touch at the
\* origin; C26 tells it from the lookup below
firstTouchOrOrigin(touches) ==
  IF touches = <<>> THEN <<[x |-> 0, y |-> 0]>> ELSE <<touches[1]>>

\* lines 1178 and 1207: event.touches[0], <<>> is undefined
firstTouch(touches) == IF touches = <<>> THEN <<>> ELSE <<touches[1]>>

\* the touches on the screen after a touch event the viewer has processed,
\* where they are tracked: count is event.touches.length
touchesLeft(t, count) == IF t.tracked THEN [t EXCEPT !.count = count] ELSE t

\* lines 1174-1195; touches is event.touches, a sequence of points
handleTouchStart(touches) ==
  /\ IF isLoaded /\ firstTouch(touches) # <<>>
     THEN LET touch == firstTouch(touches)[1]
              position == mouseToViewportPosition(CurrentBounds, container, touch.x, touch.y)
              moved == updateViewportPosition(CurrentBounds, viewport, TRUE,
                                              position.x, position.y, FALSE)
          IN /\ input' = [input EXCEPT !.touchActive = TRUE, !.isMouseActive = FALSE,
                                       !.keyboardActive = FALSE,
                                       !.mouseX = touch.x, !.mouseY = touch.y]
             /\ viewport' = storePosition(viewport, moved)
             /\ CacheFilled
             /\ renderViewportPosition(container)
             /\ activeTouches' = touchesLeft(activeTouches, Len(touches))
     ELSE UNCHANGED <<input, viewport, controllerVars, updateCount, sink, activeTouches>>
  /\ UNCHANGED <<container, deviceType, loopVars, isLoaded, imageState, imageLoads, timerVars, throttleVars>>

\* lines 1200-1217 inside throttle, lines 1252-1271
handleTouchMove(touches, elapsed) ==
  IF throttle(touchInThrottle, lastExecTime, lastExecTime.touch, TouchLimit, elapsed)
  THEN /\ touchInThrottle' = TRUE
       /\ lastExecTime' = [lastExecTime EXCEPT !.touch = 0]
       /\ IF isLoaded /\ input.touchActive /\ firstTouch(touches) # <<>>
          THEN LET touch == firstTouch(touches)[1]
                   position == mouseToViewportPosition(CurrentBounds, container, touch.x, touch.y)
                   moved == updateViewportPosition(CurrentBounds, viewport, input.touchActive,
                                                   position.x, position.y, TRUE)
               IN /\ input' = [input EXCEPT !.mouseX = touch.x, !.mouseY = touch.y]
                  /\ viewport' = storePosition(viewport, moved)
                  /\ CacheFilled
                  /\ renderViewportPosition(container)
          ELSE UNCHANGED <<input, viewport, controllerVars, updateCount, sink>>
       /\ UNCHANGED <<container, deviceType, loopVars, isLoaded, imageState, imageLoads, activeTouches, timerVars,
                      mouseInThrottle>>
  ELSE UNCHANGED <<container, deviceType, viewport, input, loopVars, controllerVars, isLoaded,
                      imageState, imageLoads, activeTouches, timerVars, throttleVars, updateCount, sink>>

\* lines 1266-1268: the animation frame that reopens the touch throttle
touchThrottleFrame ==
  /\ touchInThrottle
  /\ touchInThrottle' = FALSE
  /\ UNCHANGED <<container, deviceType, viewport, input, loopVars, controllerVars, isLoaded,
                 imageState, imageLoads, activeTouches, timerVars, mouseInThrottle, lastExecTime, updateCount, sink>>

\* d milliseconds pass on the clock of the throttles
throttleTimePasses(d) ==
  /\ lastExecTime.clock
  /\ lastExecTime' = [lastExecTime EXCEPT !.mouse = MinOf(MouseLimit, @ + d),
                                          !.touch = MinOf(TouchLimit, @ + d)]
  /\ UNCHANGED <<container, deviceType, viewport, input, loopVars, controllerVars, isLoaded,
                 imageState, imageLoads, activeTouches, timerVars, mouseInThrottle, touchInThrottle, updateCount, sink>>

\* lines 1222-1233; remaining is event.touches.length.  Only a timeout
\* whose event had no touch left has an effect, so only those are counted.
handleTouchEnd(remaining) ==
  /\ IF isLoaded /\ remaining = 0
     THEN /\ touchEndTimers < MaxTouchEndTimers
          /\ touchEndTimers' = touchEndTimers + 1
     ELSE UNCHANGED <<touchEndTimers>>
  /\ activeTouches' = IF isLoaded THEN touchesLeft(activeTouches, remaining) ELSE activeTouches
  /\ UNCHANGED <<container, deviceType, viewport, input, loopVars, controllerVars, isLoaded,
                 imageState, imageLoads, initTimer, restoreTimer, resizeTimer, orientTimers,
                 throttleVars, updateCount, sink>>

\* lines 1228-1232
handleTouchEndTimeout ==
  /\ touchEndTimers > 0
  /\ touchEndTimers' = touchEndTimers - 1
  /\ input' = [input EXCEPT !.touchActive = FALSE]
  /\ UNCHANGED <<container, deviceType, viewport, loopVars, controllerVars, isLoaded,
                 imageState, imageLoads, activeTouches, initTimer, restoreTimer, resizeTimer, orientTimers,
                 throttleVars, updateCount, sink>>

\* ------------------------------------------------------------------------
\* The program
\* ------------------------------------------------------------------------
\* event.touches of a touch event: no touch point, or one of the points
TouchLists(points) == {<<>>} \cup {<<p>> : p \in points}

\* room for one more render within the explored number of updates
Room == updateCount < MaxUpdates

\* one handler or callback runs, with its inputs drawn from the given sets
Step(sizes, points, keys, frameTimes) ==
  \/ handleImageSuccess
  \/ initializeViewport
  \/ Room /\ testViewportMaskRestore
  \/ \E p \in points, elapsed \in BOOLEAN : Room /\ handleMouseMove(p, elapsed)
  \/ mouseThrottleFrame
  \/ handleMouseEnter
  \/ handleMouseLeave
  \/ \E k \in keys : handleKeyDown(k)
  \/ \E k \in keys : handleKeyUp(k)
  \/ \E h \in rafPending, deltaTime \in frameTimes : Room /\ moveLoop(h, deltaTime)
  \/ handleBlur
  \/ \E hidden \in BOOLEAN : handleVisibilityChange(hidden)
  \/ handleResize
  \/ \E s \in sizes : Room /\ handleResizeTimeout(s)
  \/ handleOrientationChange
  \/ \E s \in sizes : Room /\ handleOrientationTimeout(s)
  \/ \E touches \in TouchLists(points) : Room /\ handleTouchStart(touches)
  \/ \E touches \in TouchLists(points), elapsed \in BOOLEAN : Room /\ handleTouchMove(touches, elapsed)
  \/ touchThrottleFrame
  \/ \E remaining \in 0..1 : handleTouchEnd(remaining)
  \/ handleTouchEndTimeout

\* every handler, with the full input sets
Next == Step(Sizes, Points, Keys, FrameTimes)

Spec == Init /\ [][Next]_vars

\* ------------------------------------------------------------------------
\* Specifications with narrower inputs
\* ------------------------------------------------------------------------
\* every handler interleaves; the keyboard loop is driven by all keys, the
\* pointer by one point
KeyboardSizes == {[width |-> 1000, height |-> 800], [width |-> 100, height |-> 600]}
KeyboardPoints == {[x |-> 50, y |-> 50]}
KeyboardFrameTimes == {1667}

InitKeyboard == \E s \in KeyboardSizes : InitFor(s)
NextKeyboard == Step(KeyboardSizes, KeyboardPoints, Keys, KeyboardFrameTimes)
SpecKeyboard == InitKeyboard /\ [][NextKeyboard]_vars

\* every handler interleaves; the pointer is driven by all points and
\* sizes, the keyboard loop by one key
PointerKeys == {"ArrowLeft"}

NextPointer == Step(Sizes, Points, PointerKeys, KeyboardFrameTimes)
SpecPointer == Init /\ [][NextPointer]_vars

\* ------------------------------------------------------------------------
\* Properties
\* ------------------------------------------------------------------------
\* the allowed rectangle of the current container size and radius
TrueBounds == ComputeBounds(container, viewport.radius)

NonDegenerate(b) ==
  /\ IsFinite(b.minX) /\ IsFinite(b.maxX) /\ IsFinite(b.minY) /\ IsFinite(b.maxY)
  /\ b.minX <= b.maxX
  /\ b.minY <= b.maxY

Within(b, px, py) ==
  /\ FLe(b.minX, px) /\ FLe(px, b.maxX)
  /\ FLe(b.minY, py) /\ FLe(py, b.maxY)

FinitePosition == IsFinite(viewport.x) /\ IsFinite(viewport.y)

\* a resize or orientation-change timeout runs in a window of size s
ResizeProcessed(s) == handleResizeTimeout(s) \/ handleOrientationTimeout(s)

\* the animation frame of the keyboard loop runs
TickStep == \E h \in rafPending, deltaTime \in FrameTimes : moveLoop(h, deltaTime)

\* C1: once the viewport is initialized, (x, y) lies in the rectangle
\* computed from the current container size and the current radius.  Stated
\* for finite positions and non-degenerate rectangles only, where such a
\* position exists.
C1_BoundaryContainment ==
  (isLoaded /\ FinitePosition /\ NonDegenerate(TrueBounds))
    => Within(TrueBounds, viewport.x, viewport.y)

\* C2: in the state right after a resize or orientation change has been
\* processed after load, (x, y) lies inside the recomputed rectangle
\* (same restriction to finite positions and non-degenerate rectangles).
C2_ResizeReclamps ==
  [][\A s \in Sizes :
       (isLoaded /\ FinitePosition /\ ResizeProcessed(s)
          /\ NonDegenerate(TrueBounds'))
         => Within(TrueBounds, viewport.x, viewport.y)']_vars

\* C3: once a pointer or touch sample has made the keyboard inactive
\* (keyboardActive is false until the next navigation keydown), no frame of
\* the keyboard loop moves the viewport (stated for finite positions and
\* non-degenerate rectangles).
C3_PointerPreemptsKeyboard ==
  [][(TickStep /\ ~input.keyboardActive /\ FinitePosition
        /\ NonDegenerate(TrueBounds))
       => (viewport'.x = viewport.x /\ viewport'.y = viewport.y)]_vars

\* C4: at most one input source is marked active.
C4_SourceMutualExclusion ==
  /\ ~(input.isMouseActive /\ input.keyboardActive)
  /\ input.touchActive => (~input.isMouseActive /\ ~input.keyboardActive)

\* C5: whenever the held-key set is empty, the keyboard loop is stopped: no
\* frame of the loop is pending (so none runs and none moves the viewport),
\* the loop is not marked as moving and it holds no frame handle.
C5_KeyboardLoopCancellation ==
  input.keysPressed = {}
    => (rafPending = {} /\ ~keyboard.isMoving /\ keyboard.animationId = 0)

\* the last key was released (or the window lost focus) after a frame of the
\* loop had moved the viewport: no pointer sample was ever processed, yet
\* the controller has clamped
C5_Witness ==
  /\ isLoaded /\ input.keyboardActive /\ input.keysPressed = {}
  /\ input.mouseX = 0 /\ cachedBounds # <<>>
  /\ rafPending = {}

\* C6: after load, whenever the held-key set is not empty, the keyboard loop
\* is marked as moving and exactly one frame is pending, the one whose
\* handle the loop holds.
C6_KeyboardLoopContinuity ==
  (isLoaded /\ input.keysPressed # {})
    => (keyboard.isMoving /\ keyboard.animationId # 0
        /\ rafPending = {keyboard.animationId})

\* a key is held, a frame of the loop has already run (the controller has
\* clamped although no pointer sample was processed) and the next one is
\* pending
C6_Witness ==
  /\ isLoaded /\ input.keysPressed # {}
  /\ input.mouseX = 0 /\ cachedBounds # <<>>
  /\ rafPending # {}

\* C7: a touchstart clamps and stores the result directly; when the
\* rectangle in use is the one of the current size and radius, is finite
\* and has maxX < minX, the stored x is the midpoint 0.5.
C7_DegenerateMidpoint ==
  [][\A p \in Points :
       (isLoaded /\ handleTouchStart(<<p>>) /\ CurrentBounds = TrueBounds
          /\ IsFinite(TrueBounds.minX) /\ IsFinite(TrueBounds.maxX)
          /\ TrueBounds.maxX < TrueBounds.minX)
         => viewport'.x = Half]_vars

\* C8: viewport x, y and radius are never NaN or an infinity, whatever the
\* container size.
C8_NoNonFinite ==
  IsFinite(viewport.x) /\ IsFinite(viewport.y) /\ IsFinite(viewport.radius)

\* C9: after load, the rectangle the controller would clamp with is the
\* rectangle computed from the current container size and radius.
C9_CacheFresh ==
  (isLoaded /\ cachedBounds # <<>>) => CurrentBounds = TrueBounds

\* the clamped target of a pointer or touch sample at p, with the rectangle
\* the controller clamps with
PointerTarget(p) ==
  Constrain(CurrentBounds, FDiv(p.x, container.width, Scale),
                           FDiv(p.y, container.height, Scale))

\* the step takes the viewport one interpolation step of factor alpha
\* towards the clamped target of p
SmoothedTo(p, alpha) ==
  /\ viewport'.x = Interpolate(viewport.x, PointerTarget(p).x, alpha)
  /\ viewport'.y = Interpolate(viewport.y, PointerTarget(p).y, alpha)

\* the step puts the viewport on the clamped target of p
SetTo(p) ==
  /\ viewport'.x = PointerTarget(p).x
  /\ viewport'.y = PointerTarget(p).y

Alphas == {smoothingFactor, touchSmoothingFactor}

MouseSampleProcessed(p) == isLoaded /\ ~mouseInThrottle /\ handleMouseMove(p, TRUE)

TouchMoveProcessed(p) ==
  isLoaded /\ input.touchActive /\ ~touchInThrottle /\ handleTouchMove(<<p>>, TRUE)

TouchStartProcessed(p) == isLoaded /\ handleTouchStart(<<p>>)

C11_SmoothingFactorSelection ==
  [][\A p \in Points :
       (FinitePosition /\ NonDegenerate(TrueBounds))
         => /\ MouseSampleProcessed(p) => SmoothedTo(p, smoothingFactor)
            /\ TouchMoveProcessed(p) => SmoothedTo(p, touchSmoothingFactor)]_vars

Abs(a) == IF a < 0 THEN 0 - a ELSE a

\* the position is finite and strictly inside the rectangle in use, so a
\* clamp leaves it alone
StrictlyInside ==
  /\ FinitePosition /\ NonDegenerate(CurrentBounds)
  /\ CurrentBounds.minX < viewport.x /\ viewport.x < CurrentBounds.maxX
  /\ CurrentBounds.minY < viewport.y /\ viewport.y < CurrentBounds.maxY

\* a frame of the keyboard loop runs deltaTime after the previous one
TickAfter(deltaTime) == \E h \in rafPending : moveLoop(h, deltaTime)

HeldX == input.keysPressed \cap {"arrowleft", "arrowright", "a", "d"}
HeldY == input.keysPressed \cap {"arrowup", "arrowdown", "w", "s"}

\* the displacement of one frame with a single key held
SingleKeyStep(deltaTime) == Abs(FrameDelta({"arrowleft"}, container, deltaTime).x)

\* (dx, dy) has the length speed, up to the rounding of each component to
\* the fixed-point unit, and equal components
SameMagnitude(dx, dy, speed) ==
  /\ Abs(dx) = Abs(dy)
  /\ (2 * Abs(dx) - 1) * (2 * Abs(dx) - 1) + (2 * Abs(dy) - 1) * (2 * Abs(dy) - 1)
       <= 4 * speed * speed
  /\ 4 * speed * speed
       <= (2 * Abs(dx) + 1) * (2 * Abs(dx) + 1) + (2 * Abs(dy) + 1) * (2 * Abs(dy) + 1)

\* C12: a frame of the keyboard loop with one horizontal and one vertical
\* key held, which the clamp does not cut short, displaces the viewport by
\* a vector of the same length as the step of a single key for the same
\* frame time.
C12_DiagonalSpeed ==
  [][\A deltaTime \in FrameTimes :
       (TickAfter(deltaTime) /\ Cardinality(HeldX) = 1 /\ Cardinality(HeldY) = 1
          /\ StrictlyInside /\ StrictlyInside')
         => SameMagnitude(viewport'.x - viewport.x, viewport'.y - viewport.y,
                          SingleKeyStep(deltaTime))]_vars

\* a left and an up key are held and one frame has moved the viewport
\* diagonally from the position of the self-test
C12_Witness ==
  /\ isLoaded /\ input.keysPressed = {"arrowleft", "arrowup"}
  /\ StrictlyInside
  /\ \E deltaTime \in FrameTimes :
       /\ viewport.x = Half + 100 + FrameDelta(input.keysPressed, container, deltaTime).x
       /\ viewport.y = Half + 100 + FrameDelta(input.keysPressed, container, deltaTime).y

\* ------------------------------------------------------------------------
\* The controller on its own
\* ------------------------------------------------------------------------
\* The pure parts of ViewportController, applied in a loaded viewer whose
\* container size, radius and position are drawn from the sets below.
ControllerSizes == {[width |-> 1000, height |-> 800], [width |-> 500, height |-> 700]}
ControllerRadii == {80, 150}

\* positions -0.2, -0.1, ..., GridMax / 10, and the two infinities
GridMax == 12
Grid == {(Scale \div 10) * k : k \in (0 - 2)..GridMax} \cup {PosInf, NegInf}

InitController ==
  \E s \in ControllerSizes, r \in ControllerRadii, gx \in Grid, gy \in Grid :
    /\ container = s
    /\ deviceType = detectDeviceType(s)
    /\ viewport = [x |-> gx, y |-> gy, radius |-> Px(r)]
    /\ input = [mouseX |-> 0, mouseY |-> 0, keysPressed |-> {},
                isMouseActive |-> FALSE, touchActive |-> FALSE, keyboardActive |-> FALSE]
    /\ keyboard = [animationId |-> 0, isMoving |-> FALSE]
    /\ rafPending = {}
    /\ cachedBounds = <<>>
    /\ lastContainerSize = [width |-> 0, height |-> 0]
    /\ isLoaded = TRUE
    /\ imageState = [isLoading |-> FALSE, isLoaded |-> TRUE, hasError |-> FALSE,
                     retryCount |-> 0]
    /\ initTimer = FALSE
    /\ restoreTimer = <<>>
    /\ resizeTimer = [pending |-> FALSE, left |-> 0, clock |-> FALSE]
    /\ orientTimers = 0
    /\ touchEndTimers = 0
    /\ mouseInThrottle = FALSE
    /\ touchInThrottle = FALSE
    /\ lastExecTime = [mouse |-> 0, touch |-> 0, clock |-> FALSE]
    /\ updateCount = 0
    /\ sink = [mode |-> "off", queue |-> <<>>, published |-> <<>>]
    /\ activeTouches = [count |-> 0, tracked |-> FALSE]
    /\ imageLoads = [urls |-> <<>>, tracked |-> FALSE]

\* lines 617-655: applyBoundaryConstraints applied to the stored position
applyBoundaryConstraints ==
  LET constrained == Constrain(CurrentBounds, viewport.x, viewport.y)
  IN /\ viewport' = [viewport EXCEPT !.x = constrained.x, !.y = constrained.y]
     /\ CacheFilled
     /\ UNCHANGED <<container, deviceType, input, loopVars, isLoaded, imageState, imageLoads, activeTouches, timerVars,
                    throttleVars, updateCount, sink>>

NextController ==
  \/ applyBoundaryConstraints
  \/ \E p \in Points : Room /\ handleMouseMove(p, TRUE)
  \/ mouseThrottleFrame

SpecController == InitController /\ [][NextController]_vars

\* the point of [lo, hi] nearest to v
Nearest(lo, hi, v) == IF v < lo THEN lo ELSE IF v > hi THEN hi ELSE v

\* C13: with a non-degenerate rectangle, clamping a position moves each
\* coordinate to the nearest point of its interval (the edge when it is
\* outside, itself when it is inside), and clamping the result again
\* returns it unchanged.
C13_ClampProjects ==
  [][(applyBoundaryConstraints /\ NonDegenerate(CurrentBounds)
        /\ ~IsNaN(viewport.x) /\ ~IsNaN(viewport.y))
       => /\ viewport'.x = Nearest(CurrentBounds.minX, CurrentBounds.maxX, viewport.x)
          /\ viewport'.y = Nearest(CurrentBounds.minY, CurrentBounds.maxY, viewport.y)
          /\ Constrain(CurrentBounds, viewport'.x, viewport'.y)
               = [x |-> viewport'.x, y |-> viewport'.y]]_vars

\* a position left of and below the rectangle has been clamped onto the
\* corner (minX, maxY), before any pointer sample
C13_Witness ==
  /\ cachedBounds # <<>> /\ updateCount = 0 /\ NonDegenerate(TrueBounds)
  /\ viewport.x = TrueBounds.minX /\ viewport.y = TrueBounds.maxY

\* ------------------------------------------------------------------------
\* Repeated samples of one target
\* ------------------------------------------------------------------------
\* updateViewportPosition fed the same target again and again.  To see
\* distances of 1e-6, positions are in units of 1 / (Scale * Fine) here.
Fine == 1000
MaxSamples == 50

\* clientX, clientY of the repeated target: (0.8, 0.2) and (0.05, 0.0625)
\* in a 1000x800 container
SmoothingTargets == {[x |-> 800, y |-> 160], [x |-> 50, y |-> 50]}

InitSmoothing ==
  \E p \in SmoothingTargets, touch \in BOOLEAN :
    /\ container = [width |-> 1000, height |-> 800]
    /\ deviceType = "tablet"
    /\ viewport = [x |-> Half * Fine, y |-> Half * Fine, radius |-> Px(80)]
    /\ input = [mouseX |-> p.x, mouseY |-> p.y, keysPressed |-> {},
                isMouseActive |-> ~touch, touchActive |-> touch, keyboardActive |-> FALSE]
    /\ keyboard = [animationId |-> 0, isMoving |-> FALSE]
    /\ rafPending = {}
    /\ cachedBounds = <<>>
    /\ lastContainerSize = [width |-> 0, height |-> 0]
    /\ isLoaded = TRUE
    /\ imageState = [isLoading |-> FALSE, isLoaded |-> TRUE, hasError |-> FALSE,
                     retryCount |-> 0]
    /\ initTimer = FALSE
    /\ restoreTimer = <<>>
    /\ resizeTimer = [pending |-> FALSE, left |-> 0, clock |-> FALSE]
    /\ orientTimers = 0
    /\ touchEndTimers = 0
    /\ mouseInThrottle = FALSE
    /\ touchInThrottle = FALSE
    /\ lastExecTime = [mouse |-> 0, touch |-> 0, clock |-> FALSE]
    /\ updateCount = 0
    /\ sink = [mode |-> "off", queue |-> <<>>, published |-> <<>>]
    /\ activeTouches = [count |-> 0, tracked |-> FALSE]
    /\ imageLoads = [urls |-> <<>>, tracked |-> FALSE]

\* the rectangle and the normalized target in the finer unit
FineBounds ==
  [minX |-> TrueBounds.minX * Fine, maxX |-> TrueBounds.maxX * Fine,
   minY |-> TrueBounds.minY * Fine, maxY |-> TrueBounds.maxY * Fine]

FineTarget ==
  [x |-> FDiv(input.mouseX, container.width, Scale) * Fine,
   y |-> FDiv(input.mouseY, container.height, Scale) * Fine]

\* lines 660-684: one more call with the same target
smoothSample ==
  LET moved == updateViewportPosition(FineBounds, viewport, input.touchActive,
                                      FineTarget.x, FineTarget.y, TRUE)
  IN /\ updateCount < MaxSamples
     /\ viewport' = storePosition(viewport, moved)
     /\ updateCount' = updateCount + 1
     /\ UNCHANGED sink
     /\ UNCHANGED <<container, deviceType, input, loopVars, controllerVars, isLoaded,
                    imageState, imageLoads, activeTouches, timerVars, throttleVars>>

NextSmoothing == smoothSample

SpecSmoothing == InitSmoothing /\ [][NextSmoothing]_vars

\* the clamped target, and the distance to it on each axis
ClampedFineTarget ==
  [x |-> Nearest(FineBounds.minX, FineBounds.maxX, FineTarget.x),
   y |-> Nearest(FineBounds.minY, FineBounds.maxY, FineTarget.y)]

DistX == Abs(viewport.x - ClampedFineTarget.x)
DistY == Abs(viewport.y - ClampedFineTarget.y)

\* the example: mouse samples (factor 0.15) of the target (0.8, 0.2)
ExampleRun == ~input.touchActive /\ input.mouseX = 800 /\ input.mouseY = 160

\* C14 (as the code has it): every further sample of the same target brings
\* each coordinate no farther from the clamped target, and strictly nearer
\* while it is 4e-7 or more away; in the example, 50 samples from
\* (0.5, 0.5) leave the state within 1e-4 of the clamped target.
C14_SmoothingConvergence ==
  [][smoothSample
       => /\ DistX' <= DistX /\ DistY' <= DistY
          /\ DistX >= 4 => DistX' < DistX
          /\ DistY >= 4 => DistY' < DistY
          /\ (ExampleRun /\ updateCount' = 50)
               => (DistX' <= Fine /\ DistY' <= Fine)]_vars

\* the example after its 50 samples: within 1e-4 of the target on both
\* axes, and farther than 1e-6 from it
C14_Witness ==
  /\ ExampleRun /\ updateCount = 50
  /\ DistX <= Fine /\ DistY <= Fine
  /\ DistX > Fine \div 100 /\ DistY > Fine \div 100

\* C14 (as stated): in the example, 50 samples leave the state within 1e-6
\* of the clamped target.
C14_WithinMillionth ==
  (ExampleRun /\ updateCount = 50)
    => (DistX <= Fine \div 100 /\ DistY <= Fine \div 100)

\* the scenario of a 1000x800 container with radius 150
ScenarioState == container = [width |-> 1000, height |-> 800] /\ viewport.radius = Px(150)

\* C15 (as the code has it): in a 1000x800 container with radius 150 the
\* bounds the controller computes are minX = 0.17, maxX = 0.83,
\* minY = 0.2075, maxY = 0.7925.
C15_BoundsScenario ==
  (ScenarioState /\ cachedBounds # <<>>)
    => cachedBounds[1] = [minX |-> 1700, maxX |-> 8300, minY |-> 2075, maxY |-> 7925]

\* the controller has computed its bounds in the scenario, by a clamp of
\* the stored position
C15_Witness == ScenarioState /\ cachedBounds # <<>> /\ updateCount = 0

\* C15 (as stated): in the scenario the computed bounds are minX = 0.17,
\* maxX = 0.83, minY = 0.1225 and maxY = 0.8775, the last two up to 1e-4.
C15_StatedBounds ==
  (ScenarioState /\ cachedBounds # <<>>)
    => /\ cachedBounds[1].minX = 1700 /\ cachedBounds[1].maxX = 8300
       /\ Abs(cachedBounds[1].minY - 1225) <= 1
       /\ Abs(cachedBounds[1].maxY - 8775) <= 1

\* C16: in the scenario, with the state at (0.5, 0.5), one processed mouse
\* sample at client (50, 50) moves x to 0.4505 and y to
\* 0.5 + (minY - 0.5) * 0.15, which is 0.4561 to four decimals.
C16_PointerStepScenario ==
  [][(ScenarioState /\ viewport.x = Half /\ viewport.y = Half
        /\ MouseSampleProcessed([x |-> 50, y |-> 50]))
       => /\ viewport'.x = 4505
          /\ viewport'.y = Half + RDiv((TrueBounds.minY - Half) * 15, 100)
          /\ viewport'.y = 4561]_vars

\* the state after that sample
C16_Witness ==
  /\ ScenarioState /\ updateCount = 1
  /\ input.mouseX = 50 /\ input.mouseY = 50 /\ input.isMouseActive
  /\ viewport.x = 4505 /\ viewport.y = 4561

ResizeSizes == {[width |-> 1000, height |-> 800],
                [width |-> 100, height |-> 600],
                [width |-> 500, height |-> 700],
                [width |-> 1200, height |-> 1100],
                [width |-> 2000, height |-> 900],
                [width |-> 0, height |-> 600]}

InitResize == \E s \in ResizeSizes : InitFor(s)
NextResize == Step(ResizeSizes, KeyboardPoints, PointerKeys, KeyboardFrameTimes)
SpecResize == InitResize /\ [][NextResize]_vars

\* C18: the radius is at least 60 px and at most 200 px.
C18_RadiusRange ==
  IsFinite(viewport.radius) /\ Px(60) <= viewport.radius /\ viewport.radius <= Px(200)

\* a resize to the 100x600 window after a clamp in a window of another
\* width: the formula gives 11.25 px and the radius is 60 px
C18_Witness ==
  /\ isLoaded /\ container = [width |-> 100, height |-> 600]
  /\ cachedBounds # <<>> /\ lastContainerSize.width # container.width
  /\ viewport.radius = Px(60)

\* the radius of the claim for a container c: class by the shorter
\* dimension, base = min(cap, pct of the shorter dimension), the aspect
\* factor, and the clamp to [60, 200]
ClaimedRadius(c) ==
  LET shorter == IF c.width < c.height THEN c.width ELSE c.height
      longer == IF c.width < c.height THEN c.height ELSE c.width
      pct == IF shorter < 480 THEN 15 ELSE IF shorter < 768 THEN 18
             ELSE IF shorter < 1024 THEN 20 ELSE 15
      cap == IF shorter < 480 THEN 80 ELSE IF shorter < 768 THEN 100
             ELSE IF shorter < 1024 THEN 140 ELSE 180
      pctOfShorter == shorter * pct * (Scale \div 100)
      base == IF pctOfShorter < cap * Scale THEN pctOfShorter ELSE cap * Scale
      over25 == IF shorter = 0 THEN longer > 0 ELSE 2 * longer > 5 * shorter
      over20 == IF shorter = 0 THEN longer > 0 ELSE longer > 2 * shorter
      scaled == IF over25 THEN (base * 75 + 50) \div 100
                ELSE IF over20 THEN (base * 85 + 50) \div 100
                ELSE base
  IN IF scaled < 60 * Scale THEN 60 * Scale
     ELSE IF scaled > 200 * Scale THEN 200 * Scale ELSE scaled

\* C19: after load, a processed resize or orientation change in a window of
\* size s leaves the radius of the claim's formula for s.
C19_RadiusFormula ==
  [][\A s \in ResizeSizes :
       (isLoaded /\ ResizeProcessed(s)) => viewport'.radius = ClaimedRadius(s)]_vars

\* after a resize to the 2000x900 window: tablet class, base 140 px, aspect
\* factor 0.85
C19_Witness ==
  /\ isLoaded /\ container = [width |-> 2000, height |-> 900]
  /\ deviceType = "tablet" /\ viewport.radius = Px(119)

\* ------------------------------------------------------------------------
\* The render sink
\* ------------------------------------------------------------------------
\* every handler interleaves with the render callbacks, in a browser with
\* or without custom properties and requestAnimationFrame
SinkModes == {"frame", "direct"}

InitRender == \E s \in KeyboardSizes, mode \in SinkModes : InitState(s, mode)
NextRender ==
  \/ Step(KeyboardSizes, KeyboardPoints, PointerKeys, KeyboardFrameTimes)
  \/ renderFrame
SpecRender == InitRender /\ [][NextRender]_vars

\* the values the current state, container size and radius give
DerivedTuple ==
  [pixelX |-> FMulPx(viewport.x, container.width),
   pixelY |-> FMulPx(viewport.y, container.height),
   radiusPx |-> viewport.radius]

\* C20: once the viewport is initialized and no render callback is pending,
\* the published values are the ones derived from the current state,
\* container size and radius.
C20_RenderSink ==
  (isLoaded /\ sink.mode # "off" /\ sink.queue = <<>>)
    => sink.published = <<DerivedTuple>>

\* the render callbacks have all run after a pointer sample and a resize
\* that changed the radius
C20_Witness ==
  /\ isLoaded /\ sink.mode = "frame" /\ sink.queue = <<>>
  /\ input.mouseX # 0 /\ deviceType # "mobile-small"
  /\ sink.published = <<DerivedTuple>>

\* ------------------------------------------------------------------------
\* Who writes the position
\* ------------------------------------------------------------------------
\* an operation of the motion controller runs: a pointer or touch update
\* (line 660) or a keyboard delta move (line 689)
ControllerOperation ==
  \/ \E p \in Points : MouseSampleProcessed(p) \/ TouchMoveProcessed(p) \/ TouchStartProcessed(p)
  \/ TickStep

PositionChanged == viewport'.x # viewport.x \/ viewport'.y # viewport.y

\* C21: after the viewport has been initialized, x and y are changed only
\* by the controller's pointer/touch update and keyboard delta move; no
\* timer, self-test or resize writes them.
C21_SoleWriter ==
  [][(isLoaded /\ PositionChanged) => ControllerOperation]_vars

\* ------------------------------------------------------------------------
\* The pointer outside the window
\* ------------------------------------------------------------------------
\* a pointer or touch sample is processed
SampleProcessed ==
  \E p \in Points : MouseSampleProcessed(p) \/ TouchMoveProcessed(p) \/ TouchStartProcessed(p)

\* a sample has been stored, the pointer has left the window (mouseleave
\* has cleared isMouseActive), no touch is in progress and no key is held
PointerGone ==
  /\ isLoaded
  /\ input.mouseX # 0
  /\ ~input.isMouseActive /\ ~input.touchActive
  /\ input.keysPressed = {}

\* C22: once the pointer has left the window, x, y and radius stay as they
\* are in every step that is neither a new sample nor a change of the
\* window size (no key is held, so no keyboard tick moves anything).  Stated
\* for finite positions and non-degenerate rectangles.
C22_FrozenOutsideWindow ==
  [][(PointerGone /\ FinitePosition /\ NonDegenerate(TrueBounds)
        /\ ~SampleProcessed /\ ~(\E s \in Sizes : ResizeProcessed(s)))
       => viewport' = viewport]_vars

\* ------------------------------------------------------------------------
\* The resize debounce, with a clock
\* ------------------------------------------------------------------------
\* every handler interleaves with the passing of time
TimeSteps == {40, 60}

InitDebounce == \E s \in KeyboardSizes : InitTimed(s, "off", "debounce")
NextDebounce ==
  \/ Step(KeyboardSizes, KeyboardPoints, PointerKeys, KeyboardFrameTimes)
  \/ \E d \in TimeSteps : timePasses(d)
SpecDebounce == InitDebounce /\ [][NextDebounce]_vars

\* the debounced body runs
ResizeRecompute == \E s \in KeyboardSizes : handleResizeTimeout(s)

\* C23: every resize event leaves exactly one recompute pending, due 100 ms
\* after that event whatever was pending before; the recompute runs only
\* when those 100 ms have passed, and it leaves none pending.  A burst of
\* events less than 100 ms apart is therefore followed by one recompute,
\* 100 ms after its last event, and by none in between.
C23_ResizeDebounce ==
  /\ [][handleResize => (resizeTimer'.pending /\ resizeTimer'.left = ResizeDelay)]_vars
  /\ [][ResizeRecompute => (resizeTimer.left = 0 /\ ~resizeTimer'.pending)]_vars
  /\ [][(~handleResize /\ ~ResizeRecompute /\ resizeTimer.pending)
          => (resizeTimer'.pending /\ resizeTimer'.left <= resizeTimer.left)]_vars

\* after load, a recompute has run in a changed window and no other is
\* pending
C23_Witness ==
  /\ resizeTimer.clock /\ ~resizeTimer.pending /\ orientTimers = 0
  /\ isLoaded
  /\ deviceType # "mobile-small"
  /\ viewport.radius # calculateViewportRadius("mobile-small", container)

\* ------------------------------------------------------------------------
\* The sample throttles, with a clock
\* ------------------------------------------------------------------------
\* every handler interleaves with the passing of time and with the
\* animation frames
ThrottleSizes == {[width |-> 1000, height |-> 800]}
ThrottleTimeSteps == {4}

InitThrottle == \E s \in ThrottleSizes : InitTimed(s, "off", "throttle")
NextThrottle ==
  \/ Step(ThrottleSizes, KeyboardPoints, PointerKeys, KeyboardFrameTimes)
  \/ \E d \in ThrottleTimeSteps : throttleTimePasses(d)
SpecThrottle == InitThrottle /\ [][NextThrottle]_vars

\* a mousemove or touchmove event is handled
MouseMoveEvent == \E p \in KeyboardPoints, elapsed \in BOOLEAN : handleMouseMove(p, elapsed)
TouchMoveEvent ==
  \E touches \in TouchLists(KeyboardPoints), elapsed \in BOOLEAN : handleTouchMove(touches, elapsed)

\* C24: a mouse sample is processed only when at least 8 ms have passed
\* since the last processed one and no other was processed since the last
\* animation frame of its throttle, a touch-move sample likewise with 6 ms;
\* the throttle then stays shut until its next animation frame; a sample
\* that is not processed changes nothing.
C24_SampleThrottling ==
  /\ [][MouseMoveEvent =>
          IF ~mouseInThrottle /\ lastExecTime.mouse >= MouseLimit
          THEN mouseInThrottle' /\ lastExecTime'.mouse = 0
          ELSE UNCHANGED vars]_vars
  /\ [][TouchMoveEvent =>
          IF ~touchInThrottle /\ lastExecTime.touch >= TouchLimit
          THEN touchInThrottle' /\ lastExecTime'.touch = 0
          ELSE UNCHANGED vars]_vars
  /\ [][(mouseInThrottle /\ ~mouseThrottleFrame) => mouseInThrottle']_vars
  /\ [][(touchInThrottle /\ ~touchThrottleFrame) => touchInThrottle']_vars
  /\ [][(lastExecTime'.mouse < lastExecTime.mouse) => lastExecTime'.mouse = 0]_vars
  /\ [][(lastExecTime'.touch < lastExecTime.touch) => lastExecTime'.touch = 0]_vars

\* a mouse sample has been processed and has moved the viewport, its
\* animation frame has passed, and 4 ms later the next sample is still too
\* early
C24_Witness ==
  /\ lastExecTime.clock /\ isLoaded
  /\ input.isMouseActive /\ input.mouseX # 0
  /\ ~mouseInThrottle /\ lastExecTime.mouse = 4

\* ------------------------------------------------------------------------
\* The keyboard takes over from the pointer
\* ------------------------------------------------------------------------
\* the keydown of a navigation key is handled after load
NavigationKeyDown ==
  isLoaded /\ \E k \in Keys : toLowerCase(k) \in navigationKeys /\ handleKeyDown(k)

\* the 100 ms timeout of the self-test runs
SelfTestRestore == restoreTimer # <<>> /\ testViewportMaskRestore

\* C25: the keydown of a navigation key after load leaves the keyboard
\* marked active, the mouse marked inactive and the keyboard loop running
\* with a frame pending; and while the keyboard is marked active, a step
\* that is not a new pointer or touch sample moves the viewport only as a
\* tick of the keyboard loop (or as the restore of the self-test), never
\* as a further smoothing step towards the last pointer position.
C25_KeyboardPreemptsPointer ==
  /\ [][NavigationKeyDown =>
          (/\ input'.keyboardActive /\ ~input'.isMouseActive
           /\ keyboard'.isMoving /\ keyboard'.animationId \in rafPending')]_vars
  /\ [][(input.keyboardActive /\ ~SampleProcessed /\ PositionChanged)
          => (TickStep \/ SelfTestRestore)]_vars

\* a mouse sample has moved the viewport, the pointer is still inside the
\* window, and a keydown has made the keyboard the active source
C25_Witness ==
  /\ isLoaded /\ input.mouseX # 0 /\ ~input.touchActive
  /\ viewport.x # Half /\ viewport.x # RDiv(Scale * 51, 100)
  /\ input.keyboardActive /\ ~input.isMouseActive
  /\ input.keysPressed = {"arrowleft"}
  /\ keyboard.isMoving /\ keyboard.animationId \in rafPending
  /\ cachedBounds # <<>> /\ updateCount = 3

\* ------------------------------------------------------------------------
\* Touch events without a touch point
\* ------------------------------------------------------------------------
\* a touchstart or touchmove event whose touches list is empty is handled
EmptyTouchEvent ==
  handleTouchStart(<<>>) \/ \E elapsed \in BOOLEAN : handleTouchMove(<<>>, elapsed)

\* C26: a touchstart or touchmove event without a touch point leaves the
\* viewport, the stored pointer coordinates, the held keys and the source
\* flags as they are.
C26_EmptyTouchDropped ==
  [][EmptyTouchEvent => (viewport' = viewport /\ input' = input)]_vars

\* during a touch after load, a touchmove has gone through the throttle
\* without a render: the one render after initialization is the touchstart's
C26_Witness ==
  /\ isLoaded /\ input.touchActive /\ input.mouseX # 0
  /\ touchInThrottle
  /\ updateCount = 3

\* ------------------------------------------------------------------------
\* The radius at initialization
\* ------------------------------------------------------------------------
\* the radius a resize to the size c produces
RadiusAfterResize(c) == calculateViewportRadius(detectDeviceType(c), c)

\* C27: the radius that initializeViewport computes is the one a resize to
\* the same container size would produce.
C27_RadiusAtInitialization ==
  [][initializeViewport => viewport'.radius = RadiusAfterResize(container)]_vars

\* ------------------------------------------------------------------------
\* The keyboard loop at different frame rates
\* ------------------------------------------------------------------------
\* the keyboard loop alone, after load: keys go down and up and frames
\* come at 60 and at 30 per second, in a window of each speed class, from
\* a few positions
FrameRateSizes == {[width |-> 1000, height |-> 800],
                   [width |-> 500, height |-> 700],
                   [width |-> 400, height |-> 700]}
FrameRateKeys == {"ArrowLeft", "ArrowUp", "d"}
FrameRateStarts == {Half - 1000, Half}

\* a loaded viewer in a window of size s, after a resize, with the viewport
\* at (x, y), no key held and nothing pending
InitLoaded(s, x, y) ==
    /\ container = s
    /\ deviceType = detectDeviceType(s)
    /\ viewport = [x |-> x, y |-> y,
                   radius |-> calculateViewportRadius(detectDeviceType(s), s)]
    /\ input = [mouseX |-> 0, mouseY |-> 0, keysPressed |-> {},
                isMouseActive |-> FALSE, touchActive |-> FALSE, keyboardActive |-> FALSE]
    /\ keyboard = [animationId |-> 0, isMoving |-> FALSE]
    /\ rafPending = {}
    /\ cachedBounds = <<>>
    /\ lastContainerSize = [width |-> 0, height |-> 0]
    /\ isLoaded = TRUE
    /\ imageState = [isLoading |-> FALSE, isLoaded |-> TRUE, hasError |-> FALSE,
                     retryCount |-> 0]
    /\ initTimer = FALSE
    /\ restoreTimer = <<>>
    /\ resizeTimer = [pending |-> FALSE, left |-> 0, clock |-> FALSE]
    /\ orientTimers = 0
    /\ touchEndTimers = 0
    /\ mouseInThrottle = FALSE
    /\ touchInThrottle = FALSE
    /\ lastExecTime = [mouse |-> 0, touch |-> 0, clock |-> FALSE]
    /\ updateCount = 0
    /\ sink = [mode |-> "off", queue |-> <<>>, published |-> <<>>]
    /\ activeTouches = [count |-> 0, tracked |-> FALSE]
    /\ imageLoads = [urls |-> <<>>, tracked |-> FALSE]

InitFrameRate == \E s \in FrameRateSizes, g \in FrameRateStarts : InitLoaded(s, g, g)

NextFrameRate ==
  \/ \E k \in FrameRateKeys : handleKeyDown(k)
  \/ \E k \in FrameRateKeys : handleKeyUp(k)
  \/ \E h \in rafPending, deltaTime \in FrameTimes : Room /\ moveLoop(h, deltaTime)

SpecFrameRate == InitFrameRate /\ [][NextFrameRate]_vars

\* the stated base speeds, in fixed-point units
StatedBaseSpeed(width) == IF width < 480 THEN 30 ELSE IF width < 768 THEN 25 ELSE 20

\* the direction of the held keys on each axis
DirX == (IF HeldX \cap {"arrowright", "d"} # {} THEN 1 ELSE 0)
          - (IF HeldX \cap {"arrowleft", "a"} # {} THEN 1 ELSE 0)
DirY == (IF HeldY \cap {"arrowdown", "s"} # {} THEN 1 ELSE 0)
          - (IF HeldY \cap {"arrowup", "w"} # {} THEN 1 ELSE 0)

\* the frame of the loop that runs deltaTime after the previous one is not
\* cut short by the clamp
FreeTick(deltaTime) ==
  keyboard.isMoving /\ input.keysPressed # {} /\ TickAfter(deltaTime)
    /\ StrictlyInside /\ StrictlyInside'

\* the displacement is perAxis per 16.67 ms on every axis with a direction,
\* up to one fixed-point unit where perAxis is rounded
MovesBy(deltaTime, perAxis, slack) ==
  /\ Abs((viewport'.x - viewport.x) - (deltaTime \div 1667) * DirX * perAxis) <= slack
  /\ Abs((viewport'.y - viewport.y) - (deltaTime \div 1667) * DirY * perAxis) <= slack

StaleSize == [width |-> 1000, height |-> 800]
StalePoints == {[x |-> 161, y |-> 400], [x |-> 50, y |-> 50]}
MaxStaleUpdates == 5

StaleRoom == updateCount < MaxStaleUpdates

InitStale == InitFor(StaleSize)
NextStale ==
  \/ handleImageSuccess
  \/ initializeViewport
  \/ \E p \in StalePoints : StaleRoom /\ handleTouchStart(<<p>>)
  \/ \E p \in StalePoints : StaleRoom /\ handleTouchMove(<<p>>, TRUE)
  \/ touchThrottleFrame
  \/ handleTouchEnd(0)
  \/ handleTouchEndTimeout
  \/ \E p \in StalePoints : StaleRoom /\ handleMouseMove(p, TRUE)
  \/ mouseThrottleFrame
  \/ handleKeyDown("ArrowLeft")
  \/ \E h \in rafPending : StaleRoom /\ moveLoop(h, 1667)
  \/ handleResize
  \/ StaleRoom /\ handleResizeTimeout(StaleSize)
SpecStale == InitStale /\ [][NextStale]_vars

\* the position is finite and inside the rectangle of the current
\* container size and radius
InBounds ==
  FinitePosition /\ NonDegenerate(TrueBounds) /\ Within(TrueBounds, viewport.x, viewport.y)

\* C29: a tick of the keyboard loop stores the clamp of state + delta to
\* the rectangle of the current container size and radius, with no
\* smoothing; so a coordinate on an edge of the rectangle whose held key
\* pushes outward stays on that edge.
C29_KeyboardAtBoundary ==
  [][(keyboard.isMoving /\ input.keysPressed # {} /\ TickAfter(1667) /\ InBounds)
       => LET b == TrueBounds
              d == FrameDelta(input.keysPressed, container, 1667)
          IN /\ viewport'.x = Nearest(b.minX, b.maxX, viewport.x + d.x)
             /\ viewport'.y = Nearest(b.minY, b.maxY, viewport.y + d.y)]_vars

\* the target of the sample p clamped to the rectangle of the current
\* container size and radius
TrueTarget(p) ==
  [x |-> Nearest(TrueBounds.minX, TrueBounds.maxX, FDiv(p.x, container.width, Scale)),
   y |-> Nearest(TrueBounds.minY, TrueBounds.maxY, FDiv(p.y, container.height, Scale))]

\* from v the step to w goes towards t without passing it
Towards(v, w, t) == (v <= w /\ w <= t) \/ (t <= w /\ w <= v)

\* the distance of w from t is the distance of v from t times
\* (1 - alpha / 100), up to one fixed-point unit
Contracted(v, w, t, alpha) ==
  Abs(Abs(w - t) - RDiv(Abs(v - t) * (100 - alpha), 100)) <= 1

\* C30: from a position inside the rectangle of the current container size
\* and radius, a processed mouse or touch-move sample takes each coordinate
\* towards the clamped target without passing it, the distance to the
\* target being multiplied by 1 - alpha, and leaves the position inside the
\* rectangle.
C30_MonotoneFollowing ==
  [][\A p \in StalePoints :
       ((MouseSampleProcessed(p) \/ TouchMoveProcessed(p)) /\ InBounds)
         => /\ Towards(viewport.x, viewport'.x, TrueTarget(p).x)
            /\ Towards(viewport.y, viewport'.y, TrueTarget(p).y)
            /\ \E alpha \in Alphas :
                 /\ Contracted(viewport.x, viewport'.x, TrueTarget(p).x, alpha)
                 /\ Contracted(viewport.y, viewport'.y, TrueTarget(p).y, alpha)
            /\ InBounds']_vars

\* ------------------------------------------------------------------------
\* Radius and container size under input
\* ------------------------------------------------------------------------
\* a pointer, touch or key event, or a frame of the keyboard loop
InputEvent ==
  \/ \E p \in KeyboardPoints, elapsed \in BOOLEAN : handleMouseMove(p, elapsed)
  \/ handleMouseEnter
  \/ handleMouseLeave
  \/ \E k \in Keys : handleKeyDown(k)
  \/ \E k \in Keys : handleKeyUp(k)
  \/ \E h \in rafPending : moveLoop(h, 1667)
  \/ \E touches \in TouchLists(KeyboardPoints) : handleTouchStart(touches)
  \/ \E touches \in TouchLists(KeyboardPoints), elapsed \in BOOLEAN :
       handleTouchMove(touches, elapsed)
  \/ \E remaining \in 0..1 : handleTouchEnd(remaining)
  \/ handleTouchEndTimeout

\* C31: a pointer, touch or key event or a frame of the keyboard loop leaves
\* the radius and the stored container size as they are, and the radius
\* changes only in a step that initializes the viewport or processes a
\* resize or an orientation change.
C31_RadiusUntouchedByInput ==
  /\ [][InputEvent => (viewport'.radius = viewport.radius /\ container' = container)]_vars
  /\ [][viewport'.radius # viewport.radius
          => (initializeViewport \/ \E s \in KeyboardSizes : ResizeProcessed(s))]_vars

\* a sample has been processed and the keyboard loop has moved the viewport
\* in a container no resize has been processed for; the radius is the one
\* of the initialization
C31_Witness ==
  /\ isLoaded /\ restoreTimer = <<>>
  /\ container = [width |-> 1000, height |-> 800]
  /\ deviceType = "mobile-small"
  /\ input.mouseX = 50
  /\ keyboard.isMoving
  /\ updateCount = MaxUpdates
  /\ viewport.radius = Px(80)

\* ------------------------------------------------------------------------
\* The keyboard loop under every interleaving
\* ------------------------------------------------------------------------
\* C32: in every state a handler or a frame leaves, at most one callback of
\* the keyboard loop is waiting for a frame, and the loop is marked as
\* moving exactly when it holds a frame handle.
C32_SingleKeyboardLoop ==
  /\ Cardinality(rafPending) <= 1
  /\ keyboard.isMoving <=> keyboard.animationId # 0

\* two keys are held, a frame of the loop has run and has requested the
\* next one, which is the only one pending
C32_Witness ==
  /\ isLoaded /\ keyboard.isMoving
  /\ Cardinality(input.keysPressed) = 2
  /\ keyboard.animationId = 2
  /\ rafPending = {2}

\* ------------------------------------------------------------------------
\* Touches on the screen
\* ------------------------------------------------------------------------
\* one finger at a time: a touch starts when none is on the screen, and the
\* touch that ends is the one that was started; the window keeps the focus
\* and the mouse events the browser derives from touches arrive as well
TouchSize == [width |-> 1000, height |-> 800]

InitTouch == InitTimed(TouchSize, "off", "touch")
NextTouch ==
  \/ handleImageSuccess
  \/ initializeViewport
  \/ Room /\ testViewportMaskRestore
  \/ \E p \in Points : Room /\ activeTouches.count = 0 /\ handleTouchStart(<<p>>)
  \/ \E p \in Points, elapsed \in BOOLEAN : Room /\ handleTouchMove(<<p>>, elapsed)
  \/ touchThrottleFrame
  \/ activeTouches.count = 1 /\ handleTouchEnd(0)
  \/ handleTouchEndTimeout
  \/ \E p \in Points : Room /\ handleMouseMove(p, TRUE)
  \/ mouseThrottleFrame

SpecTouch == InitTouch /\ [][NextTouch]_vars

\* C33: while a touch whose touchstart was processed is on the screen,
\* touchActive is true, and every touch-move sample that passes the
\* throttle in that time is applied.
C33_TouchActivityTracksFinger ==
  /\ [](activeTouches.count > 0 => input.touchActive)
  /\ [][\A p \in Points :
          (activeTouches.count > 0 /\ ~touchInThrottle /\ handleTouchMove(<<p>>, TRUE))
            => (input'.mouseX = p.x /\ input'.mouseY = p.y
                /\ updateCount' = updateCount + 1)]_vars

\* ------------------------------------------------------------------------
\* Input and pending timer callbacks
\* ------------------------------------------------------------------------
\* the callback of a timeout runs
TimerCallback ==
  \/ initializeViewport
  \/ SelfTestRestore
  \/ \E s \in Sizes : ResizeProcessed(s)
  \/ handleTouchEndTimeout

\* C34: once the viewport is initialized a mouse sample that passes the
\* throttle is accepted, and once the controller has stored a position for
\* a pointer, touch or keyboard update, no callback of a timeout changes the
\* position (stated for finite positions and non-degenerate rectangles).
C34_NoLostInput ==
  /\ [][\A p \in Points :
          (isLoaded /\ ~mouseInThrottle /\ handleMouseMove(p, TRUE))
            => (input'.mouseX = p.x /\ input'.mouseY = p.y)]_vars
  /\ [][(isLoaded /\ cachedBounds # <<>> /\ FinitePosition /\ NonDegenerate(TrueBounds)
          /\ TimerCallback)
          => (viewport'.x = viewport.x /\ viewport'.y = viewport.y)]_vars

\* ------------------------------------------------------------------------
\* Keyboard speed for every set of held keys
\* ------------------------------------------------------------------------
\* C35: a frame of the keyboard loop that is not cut short by the clamp
\* displaces the viewport by a vector of length baseSpeed(width) * T / 16.67
\* in the net direction of the held keys: along the one axis with a net
\* direction when the keys of the other axis cancel or are not held, with
\* equal components when both axes have one, and not at all when neither
\* has.
C35_ConstantKeyboardSpeed ==
  [][\A deltaTime \in FrameTimes :
       FreeTick(deltaTime) =>
         LET speed == (deltaTime \div 1667) * StatedBaseSpeed(container.width)
             dx == viewport'.x - viewport.x
             dy == viewport'.y - viewport.y
         IN /\ DirX = 0 => dx = 0
            /\ DirY = 0 => dy = 0
            /\ (DirX # 0 /\ DirY = 0) => Abs(dx) = speed
            /\ (DirX = 0 /\ DirY # 0) => Abs(dy) = speed
            /\ (DirX # 0 /\ DirY # 0) => SameMagnitude(dx, dy, speed)]_vars

\* ------------------------------------------------------------------------
\* Before the viewport is initialized
\* ------------------------------------------------------------------------
\* C36: while isLoaded is false the viewport is at (0.5, 0.5) with the
\* default radius, no key is held and no keyboard loop runs; every mouse,
\* touch and key event of that phase leaves viewport, held keys and loop as
\* they are; and a resize or orientation change processed in that phase
\* stores the new container size and changes neither the radius nor the
\* position, and renders nothing.
C36_InputIgnoredUntilInitialized ==
  /\ [](~isLoaded =>
          /\ viewport = [x |-> Half, y |-> Half, radius |-> Px(150)]
          /\ input.keysPressed = {}
          /\ ~keyboard.isMoving /\ keyboard.animationId = 0 /\ rafPending = {})
  /\ [][(~isLoaded /\ InputEvent)
          => (UNCHANGED <<viewport, keyboard, rafPending, touchEndTimers, updateCount>>
              /\ input'.keysPressed = {})]_vars
  /\ [][\A s \in KeyboardSizes :
          (~isLoaded /\ ResizeProcessed(s))
            => (container' = s /\ UNCHANGED <<viewport, input, updateCount>>)]_vars

\* before the viewport is initialized a mouse move and a touch move have
\* passed their throttles and a resize has been processed in a window of
\* 1000x800
C36_Witness ==
  /\ ~isLoaded
  /\ mouseInThrottle /\ touchInThrottle
  /\ deviceType = "tablet"
  /\ container = [width |-> 1000, height |-> 800]
  /\ viewport.radius = Px(150)

\* ------------------------------------------------------------------------
\* Image loading with failures and retries
\* ------------------------------------------------------------------------
\* every URL of a load attempt may fail or load, and retry() is called at
\* any moment; at most MaxLoads attempts are in flight, and an image arrives
\* only when no initialization timeout is pending
MaxLoads == 2
ImageSize == [width |-> 1000, height |-> 800]

InitImage == InitTimed(ImageSize, "off", "image")
NextImage ==
  \/ \E i \in 1..MaxLoads : ~initTimer /\ imageLoad(i)
  \/ \E i \in 1..MaxLoads : imageFailure(i)
  \/ Len(imageLoads.urls) < MaxLoads /\ retry
  \/ Room /\ initializeViewport
  \/ Room /\ testViewportMaskRestore

SpecImage == InitImage /\ [][NextImage]_vars

\* an image arrives
ImageArrives == \E i \in 1..MaxLoads : imageLoad(i)

\* the last URL of a load attempt fails
AllUrlsFailed ==
  \E i \in 1..MaxLoads :
    /\ i \in 1..Len(imageLoads.urls)
    /\ imageLoads.urls[i] = fallbackUrlCount
    /\ imageFailure(i)

\* C37: retryCount never exceeds maxRetries; a retry requested when
\* retryCount equals maxRetries starts no load and leaves imageState as it
\* is; an image that arrives resets retryCount to 0; the timeout that
\* initializes the viewport is started only by an image that arrives, never
\* by the failure of the last URL, and isLoaded becomes true only when that
\* timeout runs.
C37_BoundedRetries ==
  /\ [](imageState.retryCount <= maxRetries)
  /\ [][(imageState.retryCount = maxRetries /\ retry) => UNCHANGED <<imageState, imageLoads>>]_vars
  /\ [][ImageArrives => imageState'.retryCount = 0]_vars
  /\ [][(initTimer' /\ ~initTimer) => ImageArrives]_vars
  /\ [][AllUrlsFailed => UNCHANGED <<initTimer, isLoaded, viewport>>]_vars
  /\ [][(isLoaded' /\ ~isLoaded) => (initTimer /\ initializeViewport)]_vars

\* the first attempt and three retries have failed on every URL: the
\* retries are used up, none is in flight and the viewport is not
\* initialized
C37_Witness ==
  /\ imageState.retryCount = maxRetries
  /\ imageState.hasError /\ ~imageState.isLoading
  /\ imageLoads.urls = <<>>
  /\ ~initTimer /\ ~isLoaded

====
